---- MODULE Spec2Model ----
(***************************************************************************)
(* Session store (AuthProvider), route guard and AdminLayout of the        *)
(* aiconmac admin client.                                                  *)
(*                                                                         *)
(* One step of the model is one turn of the browser's event loop: a user   *)
(* event handler, or the continuation of an async function after an await, *)
(* runs to its next await; React then commits the batched state updates    *)
(* and runs the effects whose dependencies changed, before any other event *)
(* is handled.  A navigation started by router.push is asynchronous: the   *)
(* pathname changes in a later step (NavCommit), and a later push          *)
(* supersedes a navigation still in flight.                                *)
(***************************************************************************)
EXTENDS Naturals, FiniteSets, Sequences, Bags, TLC

\* ------------------------------------------------------------------ bounds
NumTokens == 2

TokenPool == <<"jwt1", "jwt2", "jwt3", "jwt4">>
Tokens == {TokenPool[i] : i \in 1..NumTokens}

\* ----------------------------------------------------------- program values
Null == "null"
Undefined == "undefined"

\* User = { id, email, name?, role }: a user is named by its id, RoleOf gives
\* its role.
Users == {"admin1", "editor1", "viewer1"}
RoleOf(u) ==
  CASE u = "admin1"  -> "ADMIN"
    [] u = "editor1" -> "EDITOR"
    [] u = "viewer1" -> "VIEWER"

LoginPath == "/login"
DashboardPath == "/dashboard"

\* AdminLayout's navItems: href and the roles that see the entry.
navItems ==
  << [href |-> "/dashboard",                   roles |-> {"ADMIN", "EDITOR", "VIEWER"}],
     [href |-> "/dashboard/projects",          roles |-> {"ADMIN", "EDITOR"}],
     [href |-> "/dashboard/clients",           roles |-> {"ADMIN", "EDITOR"}],
     [href |-> "/dashboard/testimonials",      roles |-> {"ADMIN", "EDITOR", "VIEWER"}],
     [href |-> "/dashboard/contacts",          roles |-> {"ADMIN", "EDITOR", "VIEWER"}],
     [href |-> "/dashboard/careers",           roles |-> {"ADMIN", "EDITOR"}],
     [href |-> "/dashboard/brochure-requests", roles |-> {"ADMIN", "EDITOR", "VIEWER"}],
     [href |-> "/dashboard/users",             roles |-> {"ADMIN"}] >>

ProtectedPaths == {navItems[i].href : i \in DOMAIN navItems}
Paths == {LoginPath} \cup ProtectedPaths

NoNav == "none"

\* js-cookie: Cookies.set('token', v, { expires: 7, secure: ... })
CookieExpiryDays == 7
NoCookie == [value |-> Undefined, expires |-> 0, secure |-> FALSE]
TokenCookie(v, prod) == [value |-> v, expires |-> CookieExpiryDays, secure |-> prod]

\* JavaScript truthiness of a string-or-absent value
Falsy(x) == x \in {Null, Undefined, ""}

VARIABLES
  user,        \* useState<User | null>(null)
  token,       \* useState<string | null>(null)
  isLoading,   \* useState(true)
  error,       \* useState<string | null>(null)
  cookie,      \* the 'token' cookie (js-cookie)
  production,  \* process.env.NODE_ENV === 'production'
  pathname,    \* usePathname()
  pending,     \* target of the navigation in flight (router.push), or NoNav
  guardPush,   \* what the redirect effect pushed in the last step, or NoNav
  initPc,      \* loadUser: "mount", "awaiting" (GET /auth/me in flight), "done"
  loginPc,     \* login: "idle", "awaiting" (POST /auth/login in flight)
  loginResult, \* login's promise: "none", "pending", "resolved" or the rejection's message
  lastOp,      \* last completed store operation
  prevOp,      \* the one completed before it
  meRequests,  \* number of GET /auth/me requests sent
  meResponse,  \* outcome of GET /auth/me: "none", "fail" or the user returned
  settled,     \* number of times loadUser has run setIsLoading(false)
  storedToken, \* loadUser's const storedToken = Cookies.get('token')
  loginReply,  \* the backend's answer to the last POST /auth/login, once received
  net,         \* the bag of requests sent through the api client and not yet settled
  page,        \* the dashboard page component whose state follows, "none" when none is followed
  db,          \* the backend's rows of the page's resource
  list,        \* useState([]): the rows the page displays
  pageLoading, \* the page's loading state, useState(true)
  pageError,   \* the page's error state
  showModal,   \* useState(false): the create/edit modal
  editing,     \* editingTestimonial / editingProject / editingUserId, or null
  deleting,    \* deletingTestimonialId / deletingSubmissionId / deletingProjectId / deletingUserId, or null
  viewing,     \* viewingSubmission, or null
  selectedRole, \* UsersPage: useState('')
  actionLoading, \* UsersPage: useState(false)
  bypass,      \* a handler has been called although its control is not rendered for the user's role
  title,       \* ProjectsPage's form: watch("title")
  slug,        \* ProjectsPage's form: the slug field
  defaultValues, \* ProjectsPage's form: the values reset() goes back to
  formData     \* ProjectsPage.onSubmit: the title and slug appended to the body

vars == <<user, token, isLoading, error, cookie, production, pathname, pending,
          guardPush, initPc, loginPc, loginResult, lastOp, prevOp, meRequests,
          meResponse, settled, storedToken, loginReply, net, page, db, list, pageLoading,
          pageError, showModal, editing, deleting, viewing, selectedRole, actionLoading,
          bypass, title, slug, defaultValues, formData>>

\* The state of the page component, and what a page never writes.
pageVars == <<page, db, list, pageLoading, pageError, showModal, editing, deleting, viewing,
              selectedRole, actionLoading, bypass>>
\* The text fields of ProjectsPage's form that are followed.
formVars == <<title, slug, defaultValues, formData>>
sessionVars == <<user, token, isLoading, error, cookie, production, pathname, pending,
                 guardPush, initPc, loginPc, loginResult, lastOp, prevOp, meRequests,
                 meResponse, settled, storedToken, loginReply>>

\* ------------------------------------------------------------ AdminLayout
\* (mutant: the user test placed before the loading test)
AdminLayoutView_UserFirst(loading, u) ==
  IF u # Null THEN "content"
  ELSE IF loading THEN "spinner"
  ELSE "redirecting"

\* What AdminLayout renders for a session state.
AdminLayoutView(loading, u) ==
  IF loading THEN "spinner"
  ELSE IF u = Null THEN "redirecting"
  ELSE "content"

\* (mutant: the entries are not filtered by role)
filteredNavItems_Unfiltered(u) ==
  {navItems[i].href : i \in {j \in DOMAIN navItems : u # Null}}

\* filteredNavItems: the hrefs shown in the sidebar for a user.
filteredNavItems(u) ==
  {navItems[i].href : i \in {j \in DOMAIN navItems : u # Null /\ RoleOf(u) \in navItems[j].roles}}

\* What the browser shows: the login page at /login, otherwise a dashboard
\* page, all of which wrap their content in AdminLayout.
Screen ==
  IF pathname = LoginPath THEN "loginPage" ELSE AdminLayoutView(isLoading, user)

\* The login form's submit button is disabled={isLoading}.
LoginFormEnabled == pathname = LoginPath /\ ~isLoading

\* ------------------------------------------------------------ route guard
\* (mutant: unauthenticated users are not sent to /login)
GuardTarget_NoLoginRedirect(loading, u, path) ==
  IF ~loading /\ u # Null /\ path = LoginPath THEN DashboardPath ELSE NoNav

\* (mutant: the isLoading test is missing)
GuardTarget_IgnoresLoading(loading, u, path) ==
  IF u # Null /\ path = LoginPath THEN DashboardPath
  ELSE IF u = Null /\ path # LoginPath THEN LoginPath
  ELSE NoNav

\* (mutant: the two router.push targets are exchanged)
GuardTarget_SwappedTargets(loading, u, path) ==
  IF ~loading
  THEN IF u # Null /\ path = LoginPath THEN LoginPath
       ELSE IF u = Null /\ path # LoginPath THEN DashboardPath
       ELSE NoNav
  ELSE NoNav

\* The redirect effect's body: the path it pushes, or NoNav.
GuardTarget(loading, u, path) ==
  IF ~loading
  THEN IF u # Null /\ path = LoginPath THEN DashboardPath
       ELSE IF u = Null /\ path # LoginPath THEN LoginPath
       ELSE NoNav
  ELSE NoNav

\* React runs the redirect effect after a commit in which one of its
\* dependencies [isLoading, user, pathname] changed.  inFlight is the
\* navigation in flight once the handler itself has run.
RedirectEffect(inFlight) ==
  LET ran == <<isLoading', user', pathname'>> # <<isLoading, user, pathname>>
      g   == IF ran THEN GuardTarget(isLoading', user', pathname') ELSE NoNav
  IN /\ guardPush' = g
     /\ pending' = IF g # NoNav THEN g ELSE inFlight

\* -------------------------------------------------------------- api client
\* The Authorization header of a request: absent, or `Bearer ${t}`.
NoAuth == <<>>
Bearer(t) == <<"Bearer", t>>

\* The rows of a resource, on the backend and as a page displays them: each id
\* is absent, or present with its flag (isApproved, isRead) off or on.
Items == {"item1"}
NoItem == "none"
NoValue == "none"
Rows == [Items -> {"absent", "off", "on"}]
NoRows == [i \in Items |-> "absent"]

\* An axios request config as the call site builds it.  by is the async
\* function awaiting the response; status and data are filled in by the
\* backend's answer.
Config(by, method, url, item, value) ==
  [by |-> by, method |-> method, url |-> url, item |-> item, value |-> value,
   Authorization |-> NoAuth, cookieAtSend |-> Undefined,
   status |-> "sent", data |-> NoRows]

\* (mutant: the interceptor returns the config as it received it)
RequestInterceptor_NoHeader(config) == config

\* api.interceptors.request.use((config) => ...): the token cookie, when
\* there is one, becomes the request's Authorization header.
RequestInterceptor(config) ==
  IF ~Falsy(cookie.value)
  THEN [config EXCEPT !.Authorization = Bearer(cookie.value)]
  ELSE config

\* The wire q after api.get / api.post / api.put / api.delete: the config goes
\* through the request interceptor and the request is sent.  cookieAtSend
\* records the token cookie as it was when the request was sent.
Sent(q, config) ==
  q (+) SetToBag({[RequestInterceptor(config) EXCEPT !.cookieAtSend = cookie.value]})

\* The wire q once the awaited promise of the request r has settled.
Settled(q, r) == q (-) SetToBag({r})

\* The requests on the wire.
Wire == BagToSet(net)

\* The request on the wire a session operation awaits.
Awaited(by) == CHOOSE r \in Wire : r.by = by

\* ------------------------------------------------------------------ pages
\* The page component of the app router for a location (the pages followed
\* here), "none" elsewhere.
PageAt(path) ==
  CASE path = "/dashboard/testimonials" -> "TestimonialsPage"
    [] path = "/dashboard/contacts"     -> "ContactSubmissionsPage"
    [] path = "/dashboard/careers"      -> "CareerSubmissionsPage"
    [] path = "/dashboard/projects"     -> "ProjectsPage"
    [] path = "/dashboard/users"        -> "UsersPage"
    [] path = "/dashboard/brochure-requests" -> "BrochureRequestsPage"
    [] OTHER                            -> "none"

PagePaths == {p \in ProtectedPaths : PageAt(p) # "none"}

SubmissionPages == {"ContactSubmissionsPage", "CareerSubmissionsPage"}

\* The resource a page lists: api.get('/testimonials'), api.get('/contact'), ...
Url(pg) ==
  CASE pg = "TestimonialsPage"       -> "/testimonials"
    [] pg = "ContactSubmissionsPage" -> "/contact"
    [] pg = "CareerSubmissionsPage"  -> "/careers"
    [] pg = "ProjectsPage"           -> "/projects"
    [] pg = "UsersPage"              -> "/auth/users"
    [] pg = "BrochureRequestsPage"   -> "/brochure-request"

\* The roles a page's fetch effect and render accept.
ViewRoles(pg) ==
  CASE pg = "TestimonialsPage"       -> {"ADMIN", "EDITOR", "VIEWER"}
    [] pg = "ContactSubmissionsPage" -> {"ADMIN", "EDITOR", "VIEWER"}
    [] pg = "CareerSubmissionsPage"  -> {"ADMIN", "EDITOR"}
    [] pg = "ProjectsPage"           -> {"ADMIN", "EDITOR"}
    [] pg = "UsersPage"              -> {"ADMIN"}
    [] pg = "BrochureRequestsPage"   -> {"ADMIN", "EDITOR", "VIEWER"}

\* The roles for which a page renders its create and edit controls, its
\* toggle control, and its delete control and delete-confirm modal.
EditRoles(pg) ==
  IF pg \in {"TestimonialsPage", "ProjectsPage"} THEN {"ADMIN", "EDITOR"}
  ELSE IF pg = "UsersPage" THEN {"ADMIN"}
  ELSE {}

ToggleRoles(pg) ==
  IF pg \in {"TestimonialsPage"} \cup SubmissionPages THEN {"ADMIN", "EDITOR"} ELSE {}

DeleteRoles(pg) ==
  IF pg \in {"TestimonialsPage", "ProjectsPage"} THEN {"ADMIN", "EDITOR"}
  ELSE IF pg = "BrochureRequestsPage" THEN {}
  ELSE {"ADMIN"}

\* (mutant: the delete handlers of the submission pages accept EDITOR too)
DeleteHandlerRoles_EditorDeletes(pg) ==
  IF pg = "ProjectsPage" THEN {"ADMIN", "EDITOR", "VIEWER"} ELSE {"ADMIN", "EDITOR"}

\* The roles a page's delete handler itself accepts: deleteProject has no
\* role test.
DeleteHandlerRoles(pg) ==
  IF pg = "ProjectsPage" THEN {"ADMIN", "EDITOR", "VIEWER"} ELSE DeleteRoles(pg)

NotAuthorizedToView == "You are not authorized to view this page."

FetchFailed(pg) ==
  CASE pg = "TestimonialsPage"       -> "Failed to fetch testimonials"
    [] pg = "ContactSubmissionsPage" -> "Failed to fetch contact submissions"
    [] pg = "CareerSubmissionsPage"  -> "Failed to fetch career submissions"
    [] pg = "ProjectsPage"           -> "Failed to fetch projects"
    [] pg = "UsersPage"              -> "Failed to fetch users"
    [] pg = "BrochureRequestsPage"   -> "Failed to fetch brochure requests"

ToggleDenied(pg) ==
  IF pg = "TestimonialsPage" THEN "You are not authorized to change approval status."
  ELSE "You are not authorized to change read status."

ToggleFailed(pg) ==
  IF pg = "TestimonialsPage" THEN "Failed to toggle approval."
  ELSE "Failed to update read status."

DeleteDenied(pg) ==
  IF pg = "TestimonialsPage" THEN "You are not authorized to delete testimonials."
  ELSE "You are not authorized to delete submissions."

DeleteFailed(pg) ==
  CASE pg = "TestimonialsPage" -> "Failed to delete testimonial."
    [] pg \in SubmissionPages  -> "Failed to delete submission."
    [] pg = "ProjectsPage"     -> "Failed to delete project."
    [] pg = "UsersPage"        -> "Failed to delete user"

SubmitFailed == "An error occurred during submission."
ImageRequired == "At least one image is required for a new project."
RoleUpdateFailed == "Failed to update user role"

\* The backend's answers: a success, or a 401 for an expired or invalid token.
FailStatuses == {"401"}

\* err.response?.data?.message of a rejected request: the body of the 401
\* may carry a message.
ResponseMessages == {Undefined, "Unauthorized"}

\* err.response?.data?.message || fallback
MessageOr(m, fallback) == IF ~Falsy(m) THEN m ELSE fallback

Role(u) == IF u = Null THEN "none" ELSE RoleOf(u)

\* The page component is on screen: its location is the current one.
Mounted == page # "none" /\ PageAt(pathname) = page

\* What the page component returns inside AdminLayout.
PageView ==
  IF page = "UsersPage"
  THEN IF user # Null /\ Role(user) # "ADMIN" THEN "denied"
       ELSE IF pageLoading THEN "spinner"
       ELSE "content"
  ELSE IF pageLoading THEN "spinner"
       ELSE IF ~Falsy(pageError) /\ page = "BrochureRequestsPage" THEN "error"
       ELSE IF ~Falsy(pageError) /\ Role(user) \notin ViewRoles(page) THEN "error"
       ELSE "content"

\* The list and its controls are on screen.
Visible == Mounted /\ Screen = "content" /\ PageView = "content"

\* The modals the page renders, each a fixed full-screen overlay above the list.
FormModalOpen ==
  /\ page \in {"TestimonialsPage", "ProjectsPage"}
  /\ showModal
  /\ page = "TestimonialsPage" => Role(user) \in EditRoles(page)

ViewModalOpen == page \in SubmissionPages /\ viewing # Null

DeleteModalOpen ==
  /\ deleting # Null
  /\ page \in {"TestimonialsPage"} \cup SubmissionPages => Role(user) \in DeleteRoles(page)

Overlay == FormModalOpen \/ ViewModalOpen \/ DeleteModalOpen

\* The list's controls can be clicked: they are on screen and no modal covers them.
ListClickable == Visible /\ ~Overlay

\* No page component is followed.
NoPage ==
  /\ page = "none"
  /\ db = NoRows
  /\ list = NoRows
  /\ pageLoading = TRUE
  /\ pageError = Null
  /\ showModal = FALSE
  /\ editing = Null
  /\ deleting = Null
  /\ viewing = Null
  /\ selectedRole = ""
  /\ actionLoading = FALSE
  /\ bypass = FALSE
  /\ title = <<>>
  /\ slug = <<>>
  /\ defaultValues = [title |-> <<>>, slug |-> <<>>]
  /\ formData = [title |-> <<>>, slug |-> <<>>]

\* fetchTestimonials / fetchSubmissions / fetchProjects / fetchUsers up to the
\* await: setLoading(true); api.get(url).  q is the wire before the call.
fetchList(q) ==
  /\ pageLoading' = TRUE
  /\ net' = Sent(q, Config("fetchList", "GET", Url(page), NoItem, NoValue))

\* Which branch the page's useEffect(..., [user]) takes for the user u: it
\* fetches the list, reports the user as not authorized, only stops the
\* spinner (UsersPage), or does nothing (ProjectsPage without a user).
\* BrochureRequestsPage's effect tests nothing and fetches.
EffectBranch(pg, u) ==
  IF pg = "BrochureRequestsPage" THEN "fetch"
  ELSE IF Role(u) \in ViewRoles(pg) THEN "fetch"
  ELSE IF pg = "UsersPage" THEN "stop"
  ELSE IF pg = "ProjectsPage" /\ u = Null THEN "skip"
  ELSE "deny"

\* The page's useEffect(..., [user]) for the user u.
FetchEffect(u, q) ==
  /\ CASE EffectBranch(page, u) = "fetch" -> fetchList(q) /\ UNCHANGED pageError
        [] EffectBranch(page, u) = "stop"  -> /\ net' = q
                                              /\ pageLoading' = FALSE
                                              /\ UNCHANGED pageError
        [] EffectBranch(page, u) = "skip"  -> net' = q /\ UNCHANGED <<pageLoading, pageError>>
        [] EffectBranch(page, u) = "deny"  -> /\ net' = q
                                              /\ pageError' = NotAuthorizedToView
                                              /\ pageLoading' = FALSE
  /\ UNCHANGED <<page, db, list, showModal, editing, deleting, viewing, selectedRole,
                 actionLoading, bypass>>

\* The navigation to path commits: a page component at another location is
\* unmounted and its state discarded.
Unmount(path) ==
  IF page # "none" /\ PageAt(path) # page
  THEN /\ page' = "none"
       /\ list' = NoRows
       /\ pageLoading' = TRUE
       /\ pageError' = Null
       /\ showModal' = FALSE
       /\ editing' = Null
       /\ deleting' = Null
       /\ viewing' = Null
       /\ selectedRole' = ""
       /\ actionLoading' = FALSE
       /\ UNCHANGED <<db, bypass>>
  ELSE UNCHANGED pageVars

\* React runs the page's fetch effect after a commit in which user changed,
\* except BrochureRequestsPage's, which has no dependency and runs on mount
\* only.  q is the wire once the handler itself has run.
UserEffect(q) ==
  IF Mounted /\ user' # user /\ page # "BrochureRequestsPage"
  THEN FetchEffect(user', q)
  ELSE net' = q /\ UNCHANGED pageVars

\* ---------------------------------------------------------- session store
\* What the backend's rejection of POST /auth/login can look like to the
\* catch block: err.response?.data?.message and err.message.
LoginErrors ==
  [respMsg : {Undefined, "", "Invalid credentials"},
   message : {Undefined, "", "Network Error"}]

\* The answers to POST /auth/login: response.data = { user, token }, or an error.
NoReply == [kind |-> "none", user |-> Null, token |-> Null,
            respMsg |-> Undefined, message |-> Undefined]
OkReply(u, t) == [kind |-> "ok", user |-> u, token |-> t,
                  respMsg |-> Undefined, message |-> Undefined]
ErrReply(err) == [kind |-> "err", user |-> Null, token |-> Null,
                  respMsg |-> err.respMsg, message |-> err.message]

Init ==
  /\ user = Null
  /\ token = Null
  /\ isLoading = TRUE
  /\ error = Null
  /\ production \in BOOLEAN
  /\ cookie \in {NoCookie} \cup {TokenCookie(t, production) : t \in Tokens}
  /\ pathname \in Paths
  /\ guardPush = GuardTarget(isLoading, user, pathname)
  /\ pending = guardPush
  /\ initPc = "mount"
  /\ loginPc = "idle"
  /\ loginResult = "none"
  /\ lastOp = "none"
  /\ prevOp = "none"
  /\ meRequests = 0
  /\ meResponse = "none"
  /\ settled = 0
  /\ storedToken = Undefined
  /\ loginReply = NoReply
  /\ net = EmptyBag
  /\ NoPage

Completed(op) == lastOp' = op /\ prevOp' = lastOp

\* (mutant: the cookie is not removed)
logout_KeepsCookie ==
  /\ token' = Null
  /\ user' = Null
  /\ UNCHANGED cookie

\* (mutant: setToken(null) is missing)
logout_KeepsToken ==
  /\ cookie' = NoCookie
  /\ user' = Null
  /\ UNCHANGED token

\* logout(): Cookies.remove, setToken(null), setUser(null); its
\* router.push('/login') is the inFlight argument of RedirectEffect.
logout ==
  /\ cookie' = NoCookie
  /\ token' = Null
  /\ user' = Null

\* loadUser up to its first await (or to its end when no token is stored).
LoadUserStart ==
  /\ initPc = "mount"
  /\ storedToken' = cookie.value
  /\ IF ~Falsy(cookie.value)
     THEN /\ token' = cookie.value
          /\ net' = Sent(net, [Config("loadUser", "GET", "/auth/me", NoItem, NoValue)
                                  EXCEPT !.Authorization = Bearer(cookie.value)])
          /\ meRequests' = meRequests + 1
          /\ initPc' = "awaiting"
          /\ UNCHANGED <<isLoading, settled, lastOp, prevOp>>
     ELSE /\ isLoading' = FALSE
          /\ settled' = settled + 1
          /\ initPc' = "done"
          /\ Completed("init")
          /\ UNCHANGED <<token, meRequests, net>>
  /\ UNCHANGED <<user, error, cookie, production, pathname, loginPc, loginResult,
                 meResponse, loginReply>>
  /\ UNCHANGED pageVars
  /\ RedirectEffect(pending)
  /\ UNCHANGED formVars

\* GET /auth/me answered: setUser(response.data); setIsLoading(false).
LoadUserResolve(u) ==
  /\ initPc = "awaiting"
  /\ user' = u
  /\ isLoading' = FALSE
  /\ settled' = settled + 1
  /\ initPc' = "done"
  /\ meResponse' = u
  /\ Completed("init")
  /\ UNCHANGED <<token, error, cookie, production, pathname, loginPc, loginResult,
                 meRequests, storedToken, loginReply>>
  /\ UserEffect(Settled(net, Awaited("loadUser")))
  /\ RedirectEffect(pending)
  /\ UNCHANGED formVars

\* (mutant: the catch block only logs the error)
LoadUserReject_NoLogout ==
  /\ initPc = "awaiting"
  /\ isLoading' = FALSE
  /\ settled' = settled + 1
  /\ initPc' = "done"
  /\ meResponse' = "fail"
  /\ Completed("init")
  /\ UNCHANGED <<user, token, cookie, error, production, pathname, loginPc, loginResult,
                 meRequests, storedToken, loginReply>>
  /\ UserEffect(Settled(net, Awaited("loadUser")))
  /\ RedirectEffect(pending)
  /\ UNCHANGED formVars

\* (mutant: setIsLoading(false) is inside the try block, skipped on failure)
LoadUserReject_StaysLoading ==
  /\ initPc = "awaiting"
  /\ logout
  /\ initPc' = "done"
  /\ meResponse' = "fail"
  /\ Completed("init")
  /\ UNCHANGED <<isLoading, settled, error, production, pathname, loginPc, loginResult,
                 meRequests, storedToken, loginReply>>
  /\ UserEffect(Settled(net, Awaited("loadUser")))
  /\ RedirectEffect(LoginPath)
  /\ UNCHANGED formVars

\* GET /auth/me failed: logout(); setIsLoading(false).
LoadUserReject ==
  /\ initPc = "awaiting"
  /\ logout
  /\ isLoading' = FALSE
  /\ settled' = settled + 1
  /\ initPc' = "done"
  /\ meResponse' = "fail"
  /\ Completed("init")
  /\ UNCHANGED <<error, production, pathname, loginPc, loginResult, meRequests,
                 storedToken, loginReply>>
  /\ UserEffect(Settled(net, Awaited("loadUser")))
  /\ RedirectEffect(LoginPath)
  /\ UNCHANGED formVars

\* const errorMessage = err.response?.data?.message || err.message || 'Login failed'
errorMessage(err) ==
  IF ~Falsy(err.respMsg) THEN err.respMsg
  ELSE IF ~Falsy(err.message) THEN err.message
  ELSE "Login failed"

\* LoginPage.handleSubmit -> login(email, password), up to its await:
\* setIsLoading(true); setError(null); api.post('/auth/login', ...).
LoginSubmit ==
  /\ LoginFormEnabled
  /\ isLoading' = TRUE
  /\ error' = Null
  /\ loginPc' = "awaiting"
  /\ loginResult' = "pending"
  /\ loginReply' = NoReply
  /\ UNCHANGED <<user, token, cookie, production, pathname, initPc, lastOp, prevOp,
                 meRequests, meResponse, settled, storedToken>>
  /\ net' = Sent(net, Config("login", "POST", "/auth/login", NoItem, NoValue))
  /\ UNCHANGED pageVars
  /\ RedirectEffect(pending)
  /\ UNCHANGED formVars

\* (mutant: Cookies.set is missing)
LoginResolve_NoCookie(u, t) ==
  /\ loginPc = "awaiting"
  /\ token' = t
  /\ user' = u
  /\ isLoading' = FALSE
  /\ loginPc' = "idle"
  /\ loginResult' = "resolved"
  /\ loginReply' = OkReply(u, t)
  /\ Completed("loginOk")
  /\ UNCHANGED <<cookie, error, production, pathname, initPc, meRequests, meResponse,
                 settled, storedToken>>
  /\ UserEffect(Settled(net, Awaited("login")))
  /\ RedirectEffect(DashboardPath)
  /\ UNCHANGED formVars

\* POST /auth/login answered with { user, token }: the try block, then finally.
LoginResolve(u, t) ==
  /\ loginPc = "awaiting"
  /\ cookie' = TokenCookie(t, production)
  /\ token' = t
  /\ user' = u
  /\ isLoading' = FALSE
  /\ loginPc' = "idle"
  /\ loginResult' = "resolved"
  /\ loginReply' = OkReply(u, t)
  /\ Completed("loginOk")
  /\ UNCHANGED <<error, production, pathname, initPc, meRequests, meResponse, settled,
                 storedToken>>
  /\ UserEffect(Settled(net, Awaited("login")))
  /\ RedirectEffect(DashboardPath)
  /\ UNCHANGED formVars

\* (mutant: the catch block does not re-throw)
LoginReject_Swallows(err) ==
  /\ loginPc = "awaiting"
  /\ error' = errorMessage(err)
  /\ loginResult' = "resolved"
  /\ isLoading' = FALSE
  /\ loginPc' = "idle"
  /\ loginReply' = ErrReply(err)
  /\ Completed("loginFail")
  /\ UNCHANGED <<user, token, cookie, production, pathname, initPc, meRequests,
                 meResponse, settled, storedToken>>
  /\ UserEffect(Settled(net, Awaited("login")))
  /\ RedirectEffect(pending)
  /\ UNCHANGED formVars

\* (mutant: setIsLoading(false) only on the success path, no finally)
LoginReject_NoFinally(err) ==
  /\ loginPc = "awaiting"
  /\ error' = errorMessage(err)
  /\ loginResult' = errorMessage(err)
  /\ loginPc' = "idle"
  /\ loginReply' = ErrReply(err)
  /\ Completed("loginFail")
  /\ UNCHANGED <<isLoading, user, token, cookie, production, pathname, initPc, meRequests,
                 meResponse, settled, storedToken>>
  /\ UserEffect(Settled(net, Awaited("login")))
  /\ RedirectEffect(pending)
  /\ UNCHANGED formVars

\* POST /auth/login failed: the catch block (setError, re-throw), then finally.
LoginReject(err) ==
  /\ loginPc = "awaiting"
  /\ error' = errorMessage(err)
  /\ loginResult' = errorMessage(err)
  /\ isLoading' = FALSE
  /\ loginPc' = "idle"
  /\ loginReply' = ErrReply(err)
  /\ Completed("loginFail")
  /\ UNCHANGED <<user, token, cookie, production, pathname, initPc, meRequests,
                 meResponse, settled, storedToken>>
  /\ UserEffect(Settled(net, Awaited("login")))
  /\ RedirectEffect(pending)
  /\ UNCHANGED formVars

\* The sidebar's Logout button (onClick={logout}), rendered with the content.
Logout ==
  /\ Screen = "content"
  /\ logout
  /\ Completed("logout")
  /\ UNCHANGED <<isLoading, error, production, pathname, initPc, loginPc, loginResult,
                 meRequests, meResponse, settled, storedToken, loginReply>>
  /\ UserEffect(net)
  /\ RedirectEffect(LoginPath)
  /\ UNCHANGED formVars

\* A click on a sidebar entry (NavItem's Link) starts a navigation.
NavClick(p) ==
  /\ Screen = "content"
  /\ p \in filteredNavItems(user)
  /\ UNCHANGED <<user, token, isLoading, error, cookie, production, pathname, initPc,
                 loginPc, loginResult, lastOp, prevOp, meRequests, meResponse, settled,
                 storedToken, loginReply>>
  /\ UNCHANGED <<net, pageVars>>
  /\ RedirectEffect(p)
  /\ UNCHANGED formVars

\* The navigation in flight completes: usePathname() returns its target.
NavCommit ==
  /\ pending # NoNav
  /\ pathname' = pending
  /\ UNCHANGED <<user, token, isLoading, error, cookie, production, initPc, loginPc,
                 loginResult, lastOp, prevOp, meRequests, meResponse, settled,
                 storedToken, loginReply>>
  /\ UNCHANGED net
  /\ Unmount(pending)
  /\ RedirectEffect(NoNav)
  /\ UNCHANGED formVars

Next ==
  \/ LoadUserStart
  \/ \E u \in Users : LoadUserResolve(u)
  \/ LoadUserReject
  \/ LoginSubmit
  \/ \E u \in Users, t \in Tokens : LoginResolve(u, t)
  \/ \E err \in LoginErrors : LoginReject(err)
  \/ Logout
  \/ \E p \in ProtectedPaths : NavClick(p)
  \/ NavCommit

Spec == Init /\ [][Next]_vars

\* The backend answers every request, and a navigation in flight completes.
Fairness ==
  /\ WF_vars(LoadUserStart)
  /\ WF_vars((\E u \in Users : LoadUserResolve(u)) \/ LoadUserReject)
  /\ WF_vars((\E u \in Users, t \in Tokens : LoginResolve(u, t))
             \/ (\E err \in LoginErrors : LoginReject(err)))
  /\ WF_vars(NavCommit)

FairSpec == Spec /\ Fairness

\* ------------------------------------------------------- page controllers
MaxInFlight == 2

\* The user can start one more request.
CanSend == BagCardinality(net) < MaxInFlight

\* (mutant: the flag is sent as displayed)
Negated_Same(flag) == flag

\* !testimonial.isApproved, !submission.isRead
Negated(flag) == IF flag = "on" THEN "off" ELSE "on"

\* The rows after the backend has carried out the request r.
Applied(rows, r) ==
  CASE r.method = "PUT"    -> [rows EXCEPT ![r.item] = r.value]
    [] r.method = "DELETE" -> [rows EXCEPT ![r.item] = "absent"]
    [] r.method = "POST"   -> [rows EXCEPT ![CHOOSE i \in Items : rows[i] = "absent"] = r.value]
    [] OTHER               -> rows

\* The backend can carry out r: the row a PUT or DELETE names exists, and a
\* POST finds a free id.
Applicable(rows, r) ==
  CASE r.method \in {"PUT", "DELETE"} -> rows[r.item] # "absent"
    [] r.method = "POST"              -> \E i \in Items : rows[i] = "absent"
    [] OTHER                          -> TRUE

\* The backend answers the request r on the wire: it carries the request
\* out and answers with the rows (a GET) or an acknowledgement, or it rejects it.
BackendAnswer(r, status) ==
  /\ r \in Wire
  /\ r.status = "sent"
  /\ r.by \notin {"loadUser", "login"}
  /\ status = "ok" => Applicable(db, r)
  /\ db' = IF status = "ok" THEN Applied(db, r) ELSE db
  /\ net' = Settled(net, r) (+)
            SetToBag({[r EXCEPT !.status = status,
                                !.data = IF status = "ok" /\ r.method = "GET"
                                         THEN db ELSE NoRows]})
  /\ UNCHANGED <<page, list, pageLoading, pageError, showModal, editing, deleting, viewing,
                 selectedRole, actionLoading, bypass>>
  /\ UNCHANGED sessionVars
  /\ UNCHANGED formVars

\* The request r on the wire was sent by the async function by, and its
\* answer has arrived.
Answered(r, by) ==
  /\ page # "none"
  /\ r \in Wire
  /\ r.by = by
  /\ r.status # "sent"

\* (mutant: the catch block also calls logout())
fetchListDone_LogsOutOnFailure(r, m) ==
  /\ Answered(r, "fetchList")
  /\ IF r.status = "ok"
     THEN /\ list' = r.data
          /\ pageError' = IF page = "UsersPage" THEN "" ELSE pageError
          /\ UNCHANGED <<user, token, cookie>>
     ELSE /\ pageError' = IF page = "BrochureRequestsPage" THEN FetchFailed(page)
                          ELSE MessageOr(m, FetchFailed(page))
          /\ logout
          /\ UNCHANGED list
  /\ pageLoading' = FALSE
  /\ net' = Settled(net, r)
  /\ UNCHANGED <<page, db, showModal, editing, deleting, viewing, selectedRole,
                 actionLoading, bypass>>
  /\ UNCHANGED <<isLoading, error, production, pathname, pending, guardPush, initPc,
                 loginPc, loginResult, lastOp, prevOp, meRequests, meResponse, settled,
                 storedToken, loginReply>>
  /\ UNCHANGED formVars

\* fetchTestimonials / fetchSubmissions / fetchProjects / fetchUsers after the
\* await: setTestimonials(response.data), or setError in the catch block; then
\* setLoading(false).  fetchUsers also clears the error on success;
\* BrochureRequestsPage's fetchData has a fixed error message.
fetchListDone(r, m) ==
  /\ Answered(r, "fetchList")
  /\ IF r.status = "ok"
     THEN /\ list' = r.data
          /\ pageError' = IF page = "UsersPage" THEN "" ELSE pageError
     ELSE /\ pageError' = IF page = "BrochureRequestsPage" THEN FetchFailed(page)
                          ELSE MessageOr(m, FetchFailed(page))
          /\ UNCHANGED list
  /\ pageLoading' = FALSE
  /\ net' = Settled(net, r)
  /\ UNCHANGED <<page, db, showModal, editing, deleting, viewing, selectedRole,
                 actionLoading, bypass>>
  /\ UNCHANGED sessionVars
  /\ UNCHANGED formVars

\* toggleApproval(testimonial) / toggleReadStatus(submission) up to the await:
\* setError(null); for ADMIN and EDITOR a PUT of the negated flag of the row as
\* displayed, for any other role the authorization message.
toggleStatus(i) ==
  /\ page \in {"TestimonialsPage"} \cup SubmissionPages
  /\ ListClickable
  /\ list[i] # "absent"
  /\ IF Role(user) \in {"ADMIN", "EDITOR"}
     THEN /\ CanSend
          /\ pageError' = Null
          /\ net' = Sent(net, Config("toggleStatus", "PUT", Url(page), i, Negated(list[i])))
     ELSE /\ pageError' = ToggleDenied(page)
          /\ UNCHANGED net
  /\ bypass' = (bypass \/ Role(user) \notin ToggleRoles(page))
  /\ UNCHANGED <<page, db, list, pageLoading, showModal, editing, deleting, viewing,
                 selectedRole, actionLoading>>
  /\ UNCHANGED sessionVars
  /\ UNCHANGED formVars

\* (mutant: the list is fetched again whatever the answer)
toggleStatusDone_AlwaysRefetches(r, m) ==
  /\ Answered(r, "toggleStatus")
  /\ fetchList(Settled(net, r))
  /\ pageError' = IF r.status = "ok" THEN pageError ELSE MessageOr(m, ToggleFailed(page))
  /\ UNCHANGED <<page, db, list, showModal, editing, deleting, viewing, selectedRole,
                 actionLoading, bypass>>
  /\ UNCHANGED sessionVars
  /\ UNCHANGED formVars

\* toggleApproval / toggleReadStatus after the await: fetch the list again, or
\* setError in the catch block.
toggleStatusDone(r, m) ==
  /\ Answered(r, "toggleStatus")
  /\ IF r.status = "ok"
     THEN fetchList(Settled(net, r)) /\ UNCHANGED pageError
     ELSE /\ pageError' = MessageOr(m, ToggleFailed(page))
          /\ net' = Settled(net, r)
          /\ UNCHANGED pageLoading
  /\ UNCHANGED <<page, db, list, showModal, editing, deleting, viewing, selectedRole,
                 actionLoading, bypass>>
  /\ UNCHANGED sessionVars
  /\ UNCHANGED formVars

\* openViewModal(submission): setViewingSubmission; an unread submission is
\* marked as read through toggleReadStatus when the user is ADMIN or EDITOR.
openViewModal(i) ==
  /\ page \in SubmissionPages
  /\ ListClickable
  /\ list[i] # "absent"
  /\ viewing' = i
  /\ IF list[i] = "off" /\ Role(user) \in {"ADMIN", "EDITOR"}
     THEN /\ CanSend
          /\ pageError' = Null
          /\ net' = Sent(net, Config("toggleStatus", "PUT", Url(page), i, Negated(list[i])))
     ELSE UNCHANGED <<pageError, net>>
  /\ UNCHANGED <<page, db, list, pageLoading, showModal, editing, deleting, selectedRole,
                 actionLoading, bypass>>
  /\ UNCHANGED sessionVars
  /\ UNCHANGED formVars

\* TestimonialsPage's New Testimonial button (setShowModal(true)) and
\* ProjectsPage's openCreateModal (setEditingProject(null); setShowModal(true)).
openCreateModal ==
  /\ page \in {"TestimonialsPage", "ProjectsPage"}
  /\ ListClickable
  /\ Role(user) \in EditRoles(page)
  /\ showModal' = TRUE
  /\ editing' = IF page = "ProjectsPage" THEN Null ELSE editing
  /\ UNCHANGED <<page, db, list, pageLoading, pageError, deleting, viewing, selectedRole,
                 actionLoading, bypass, net>>
  /\ UNCHANGED sessionVars
  /\ UNCHANGED formVars

\* openEditModal(row): setEditingTestimonial / setEditingProject; setShowModal(true).
openEditModal(i) ==
  /\ page \in {"TestimonialsPage", "ProjectsPage"}
  /\ ListClickable
  /\ Role(user) \in EditRoles(page)
  /\ list[i] # "absent"
  /\ editing' = i
  /\ showModal' = TRUE
  /\ UNCHANGED <<page, db, list, pageLoading, pageError, deleting, viewing, selectedRole,
                 actionLoading, bypass, net>>
  /\ UNCHANGED sessionVars
  /\ UNCHANGED formVars

\* (mutant: setDeleting...Id(null) is missing)
ModalClosed_KeepsDeleting ==
  /\ showModal' = FALSE
  /\ editing' = Null
  /\ UNCHANGED deleting
  /\ viewing' = Null
  /\ pageError' = Null

\* What closeModal() sets: no modal, no row being edited, deleted or viewed,
\* no error.
ModalClosed ==
  /\ showModal' = FALSE
  /\ editing' = Null
  /\ deleting' = Null
  /\ viewing' = Null
  /\ pageError' = Null

\* A modal's Cancel or X button: closeModal(); on UsersPage the delete
\* modal's Cancel is setDeletingUserId(null), disabled while an action runs.
closeModal ==
  /\ Visible
  /\ Overlay
  /\ IF page = "UsersPage"
     THEN /\ ~actionLoading
          /\ deleting' = Null
          /\ UNCHANGED <<showModal, editing, viewing, pageError>>
     ELSE ModalClosed
  /\ UNCHANGED <<page, db, list, pageLoading, selectedRole, actionLoading, bypass, net>>
  /\ UNCHANGED sessionVars
  /\ UNCHANGED formVars

\* The form is submitting: react-hook-form's isSubmitting is true until the
\* promise of onSubmit settles.
isSubmitting == \E q \in Wire : q.by = "onSubmit"

\* err.message of a request rejected with a 401.
AxiosMessage == "Request failed with status code 401"

\* onSubmit(data) up to the await: setError(null), then a PUT of the edited row
\* or a POST of a new one; flag is the form's isApproved / isPublished.
\* ProjectsPage refuses a new project without images before any request.
onSubmit(flag, hasImages) ==
  /\ page \in {"TestimonialsPage", "ProjectsPage"}
  /\ Visible
  /\ FormModalOpen
  /\ ~isSubmitting
  /\ IF page = "ProjectsPage" /\ editing = Null /\ ~hasImages
     THEN /\ pageError' = ImageRequired
          /\ UNCHANGED net
     ELSE /\ CanSend
          /\ pageError' = Null
          /\ net' = Sent(net, IF editing # Null
                              THEN Config("onSubmit", "PUT", Url(page), editing, flag)
                              ELSE Config("onSubmit", "POST", Url(page), NoItem, flag))
  /\ UNCHANGED <<page, db, list, pageLoading, showModal, editing, deleting, viewing,
                 selectedRole, actionLoading, bypass>>
  /\ UNCHANGED sessionVars
  /\ UNCHANGED formVars

\* onSubmit after the await: fetch the list again and closeModal(), or
\* setError in the catch block.
onSubmitDone(r, m) ==
  /\ Answered(r, "onSubmit")
  /\ IF r.status = "ok"
     THEN /\ fetchList(Settled(net, r))
          /\ ModalClosed
     ELSE /\ pageError' = IF page = "ProjectsPage"
                          THEN MessageOr(m, AxiosMessage)
                          ELSE MessageOr(m, SubmitFailed)
          /\ net' = Settled(net, r)
          /\ UNCHANGED <<pageLoading, showModal, editing, deleting, viewing>>
  /\ UNCHANGED <<page, db, list, selectedRole, actionLoading, bypass>>
  /\ UNCHANGED sessionVars
  /\ UNCHANGED formVars

\* confirmDelete(id): setDeleting...Id(id); on UsersPage the row's Delete
\* button, setDeletingUserId(u.id).
confirmDelete(i) ==
  /\ page # "none"
  /\ ListClickable
  /\ Role(user) \in DeleteRoles(page)
  /\ list[i] # "absent"
  /\ deleting' = i
  /\ UNCHANGED <<page, db, list, pageLoading, pageError, showModal, editing, viewing,
                 selectedRole, actionLoading, bypass, net>>
  /\ UNCHANGED sessionVars
  /\ UNCHANGED formVars

\* deleteTestimonial(id) / deleteSubmission(id) / deleteProject(id) up to the
\* await, called by the delete modal's Delete button, or called for a
\* displayed row by a user for whom the modal is not rendered: setError(null);
\* a DELETE for the roles the handler accepts, the authorization message for
\* any other.
deleteItem(i) ==
  /\ page \in {"TestimonialsPage", "ProjectsPage"} \cup SubmissionPages
  /\ Visible
  /\ \/ DeleteModalOpen /\ i = deleting
     \/ ~Overlay /\ list[i] # "absent" /\ Role(user) \notin DeleteRoles(page)
  /\ IF Role(user) \in DeleteHandlerRoles(page)
     THEN /\ CanSend
          /\ pageError' = Null
          /\ net' = Sent(net, Config("deleteItem", "DELETE", Url(page), i, NoValue))
     ELSE /\ pageError' = DeleteDenied(page)
          /\ UNCHANGED net
  /\ bypass' = (bypass \/ Role(user) \notin DeleteRoles(page))
  /\ UNCHANGED <<page, db, list, pageLoading, showModal, editing, deleting, viewing,
                 selectedRole, actionLoading>>
  /\ UNCHANGED sessionVars
  /\ UNCHANGED formVars

\* delete... after the await: fetch the list again and closeModal(), or
\* setError in the catch block.
deleteItemDone(r, m) ==
  /\ Answered(r, "deleteItem")
  /\ IF r.status = "ok"
     THEN /\ fetchList(Settled(net, r))
          /\ ModalClosed
     ELSE /\ pageError' = MessageOr(m, DeleteFailed(page))
          /\ net' = Settled(net, r)
          /\ UNCHANGED <<pageLoading, showModal, editing, deleting, viewing>>
  /\ UNCHANGED <<page, db, list, selectedRole, actionLoading, bypass>>
  /\ UNCHANGED sessionVars
  /\ UNCHANGED formVars

\* UsersPage, a row's Edit Role button: setEditingUserId(u.id); setSelectedRole(u.role).
\* A user's role is the row's flag.
editRole(i) ==
  /\ page = "UsersPage"
  /\ ListClickable
  /\ list[i] # "absent"
  /\ editing' = i
  /\ selectedRole' = list[i]
  /\ UNCHANGED <<page, db, list, pageLoading, pageError, showModal, deleting, viewing,
                 actionLoading, bypass, net>>
  /\ UNCHANGED sessionVars
  /\ UNCHANGED formVars

\* UsersPage, the role select of the row being edited: setSelectedRole(e.target.value).
selectRole(v) ==
  /\ page = "UsersPage"
  /\ ListClickable
  /\ editing # Null /\ list[editing] # "absent"
  /\ ~actionLoading
  /\ selectedRole' = v
  /\ UNCHANGED <<page, db, list, pageLoading, pageError, showModal, editing, deleting,
                 viewing, actionLoading, bypass, net>>
  /\ UNCHANGED sessionVars
  /\ UNCHANGED formVars

\* UsersPage, Cancel of the row being edited: setEditingUserId(null).
cancelEdit ==
  /\ page = "UsersPage"
  /\ ListClickable
  /\ editing # Null /\ list[editing] # "absent"
  /\ ~actionLoading
  /\ editing' = Null
  /\ UNCHANGED <<page, db, list, pageLoading, pageError, showModal, deleting, viewing,
                 selectedRole, actionLoading, bypass, net>>
  /\ UNCHANGED sessionVars
  /\ UNCHANGED formVars

\* handleRoleUpdate(userId) up to the await: nothing without a selected role;
\* setActionLoading(true); updateUserRole(userId, selectedRole).
handleRoleUpdate ==
  /\ page = "UsersPage"
  /\ ListClickable
  /\ editing # Null /\ list[editing] # "absent"
  /\ ~actionLoading
  /\ IF Falsy(selectedRole)
     THEN UNCHANGED <<actionLoading, net>>
     ELSE /\ CanSend
          /\ actionLoading' = TRUE
          /\ net' = Sent(net, Config("handleRoleUpdate", "PUT", Url(page), editing,
                                     selectedRole))
  /\ UNCHANGED <<page, db, list, pageLoading, pageError, showModal, editing, deleting,
                 viewing, selectedRole, bypass>>
  /\ UNCHANGED sessionVars
  /\ UNCHANGED formVars

\* handleRoleUpdate after the await: setEditingUserId(null); fetchUsers(), or
\* setError in the catch block; then setActionLoading(false).
handleRoleUpdateDone(r, m) ==
  /\ Answered(r, "handleRoleUpdate")
  /\ IF r.status = "ok"
     THEN /\ editing' = Null
          /\ fetchList(Settled(net, r))
          /\ UNCHANGED pageError
     ELSE /\ pageError' = MessageOr(m, RoleUpdateFailed)
          /\ net' = Settled(net, r)
          /\ UNCHANGED <<editing, pageLoading>>
  /\ actionLoading' = FALSE
  /\ UNCHANGED <<page, db, list, showModal, deleting, viewing, selectedRole, bypass>>
  /\ UNCHANGED sessionVars
  /\ UNCHANGED formVars

\* handleDeleteUser(deletingUserId) up to the await, from the delete modal's
\* Delete button: setActionLoading(true); deleteUser(userId).
handleDeleteUser ==
  /\ page = "UsersPage"
  /\ Visible
  /\ DeleteModalOpen
  /\ ~actionLoading
  /\ CanSend
  /\ actionLoading' = TRUE
  /\ net' = Sent(net, Config("handleDeleteUser", "DELETE", Url(page), deleting, NoValue))
  /\ UNCHANGED <<page, db, list, pageLoading, pageError, showModal, editing, deleting,
                 viewing, selectedRole, bypass>>
  /\ UNCHANGED sessionVars
  /\ UNCHANGED formVars

\* handleDeleteUser after the await: setDeletingUserId(null); fetchUsers(), or
\* setError and setDeletingUserId(null) in the catch block; then
\* setActionLoading(false).
handleDeleteUserDone(r, m) ==
  /\ Answered(r, "handleDeleteUser")
  /\ IF r.status = "ok"
     THEN fetchList(Settled(net, r)) /\ UNCHANGED pageError
     ELSE /\ pageError' = MessageOr(m, DeleteFailed(page))
          /\ net' = Settled(net, r)
          /\ UNCHANGED pageLoading
  /\ deleting' = Null
  /\ actionLoading' = FALSE
  /\ UNCHANGED <<page, db, list, showModal, editing, viewing, selectedRole, bypass>>
  /\ UNCHANGED sessionVars
  /\ UNCHANGED formVars

\* The answer to a request of a page that has been unmounted meanwhile: the
\* state updates of the awaiting function are dropped, the list fetch that
\* follows a successful mutation is still sent.
LateAnswer(r) ==
  /\ page = "none"
  /\ r \in Wire
  /\ r.by \notin {"loadUser", "login"}
  /\ r.status # "sent"
  /\ net' = IF r.status = "ok" /\ r.by # "fetchList"
            THEN Sent(Settled(net, r),
                      Config("fetchList", "GET", r.url, NoItem, NoValue))
            ELSE Settled(net, r)
  /\ UNCHANGED pageVars
  /\ UNCHANGED sessionVars
  /\ UNCHANGED formVars

\* ------------------------------------------------------- a page's lifetime
\* The session when a page is loaded directly: nothing but the cookie, which
\* may hold a token.
LoadedDirectly ==
  /\ user = Null
  /\ token = Null
  /\ isLoading = TRUE
  /\ cookie \in {NoCookie, TokenCookie(TokenPool[1], production)}
  /\ guardPush = NoNav
  /\ pending = NoNav
  /\ initPc = "mount"
  /\ lastOp = "none"
  /\ meRequests = 0
  /\ meResponse = "none"
  /\ settled = 0
  /\ storedToken = Undefined

\* The session when a page is reached through its sidebar entry: loadUser has
\* settled with the user u.
ReachedFromSidebar(u) ==
  /\ pathname \in filteredNavItems(u)
  /\ user = u
  /\ token = TokenPool[1]
  /\ isLoading = FALSE
  /\ cookie = TokenCookie(TokenPool[1], production)
  /\ guardPush = NoNav
  /\ pending = NoNav
  /\ initPc = "done"
  /\ lastOp = "init"
  /\ meRequests = 1
  /\ meResponse = u
  /\ settled = 1
  /\ storedToken = TokenPool[1]

\* A page component right after it has mounted and its fetch effect has run.
PageInit ==
  /\ production = FALSE
  /\ pathname \in PagePaths
  /\ error = Null
  /\ loginPc = "idle"
  /\ loginResult = "none"
  /\ prevOp = "none"
  /\ loginReply = NoReply
  /\ LoadedDirectly \/ \E u \in Users : ReachedFromSidebar(u)
  /\ page = PageAt(pathname)
  /\ db \in Rows
  /\ list = NoRows
  /\ pageLoading = (EffectBranch(page, user) \in {"fetch", "skip"})
  /\ pageError = IF EffectBranch(page, user) = "deny" THEN NotAuthorizedToView
                 ELSE IF page \in {"UsersPage", "BrochureRequestsPage"} THEN ""
                 ELSE Null
  /\ net = IF EffectBranch(page, user) = "fetch"
           THEN Sent(EmptyBag, Config("fetchList", "GET", Url(page), NoItem, NoValue))
           ELSE EmptyBag
  /\ showModal = FALSE
  /\ editing = Null
  /\ deleting = Null
  /\ viewing = Null
  /\ selectedRole = ""
  /\ actionLoading = FALSE
  /\ bypass = FALSE
  /\ title = <<>>
  /\ slug = <<>>
  /\ defaultValues = [title |-> <<>>, slug |-> <<>>]
  /\ formData = [title |-> <<>>, slug |-> <<>>]

PageNext ==
  \/ LoadUserStart
  \/ \E u \in Users : LoadUserResolve(u)
  \/ LoadUserReject
  \/ Logout
  \/ NavCommit
  \/ \E r \in Wire, status \in {"ok"} \cup FailStatuses : BackendAnswer(r, status)
  \/ \E r \in Wire, m \in ResponseMessages : fetchListDone(r, m)
  \/ \E i \in Items : toggleStatus(i)
  \/ \E r \in Wire, m \in ResponseMessages : toggleStatusDone(r, m)
  \/ \E i \in Items : openViewModal(i)
  \/ openCreateModal
  \/ \E i \in Items : openEditModal(i)
  \/ closeModal
  \/ \E flag \in {"off", "on"}, hasImages \in BOOLEAN : onSubmit(flag, hasImages)
  \/ \E r \in Wire, m \in ResponseMessages : onSubmitDone(r, m)
  \/ \E i \in Items : confirmDelete(i)
  \/ \E i \in Items : deleteItem(i)
  \/ \E r \in Wire, m \in ResponseMessages : deleteItemDone(r, m)
  \/ \E i \in Items : editRole(i)
  \/ \E v \in {"off", "on"} : selectRole(v)
  \/ cancelEdit
  \/ handleRoleUpdate
  \/ \E r \in Wire, m \in ResponseMessages : handleRoleUpdateDone(r, m)
  \/ handleDeleteUser
  \/ \E r \in Wire : LateAnswer(r)
  \/ \E r \in Wire, m \in ResponseMessages : handleDeleteUserDone(r, m)

PageSpec == PageInit /\ [][PageNext]_vars

\* The page used one request at a time: the user starts nothing while a
\* request is in flight.
OneAtATime == BagCardinality(net') <= 1

SequentialNext ==
  \/ LoadUserStart /\ OneAtATime
  \/ \E u \in Users : LoadUserResolve(u) /\ OneAtATime
  \/ LoadUserReject /\ OneAtATime
  \/ Logout /\ OneAtATime
  \/ NavCommit /\ OneAtATime
  \/ \E r \in Wire, status \in {"ok"} \cup FailStatuses : BackendAnswer(r, status) /\ OneAtATime
  \/ \E r \in Wire, m \in ResponseMessages : fetchListDone(r, m) /\ OneAtATime
  \/ \E i \in Items : toggleStatus(i) /\ OneAtATime
  \/ \E r \in Wire, m \in ResponseMessages : toggleStatusDone(r, m) /\ OneAtATime
  \/ \E i \in Items : openViewModal(i) /\ OneAtATime
  \/ openCreateModal /\ OneAtATime
  \/ \E i \in Items : openEditModal(i) /\ OneAtATime
  \/ closeModal /\ OneAtATime
  \/ \E flag \in {"off", "on"}, hasImages \in BOOLEAN : onSubmit(flag, hasImages) /\ OneAtATime
  \/ \E r \in Wire, m \in ResponseMessages : onSubmitDone(r, m) /\ OneAtATime
  \/ \E i \in Items : confirmDelete(i) /\ OneAtATime
  \/ \E i \in Items : deleteItem(i) /\ OneAtATime
  \/ \E r \in Wire, m \in ResponseMessages : deleteItemDone(r, m) /\ OneAtATime
  \/ \E i \in Items : editRole(i) /\ OneAtATime
  \/ \E v \in {"off", "on"} : selectRole(v) /\ OneAtATime
  \/ cancelEdit /\ OneAtATime
  \/ handleRoleUpdate /\ OneAtATime
  \/ \E r \in Wire, m \in ResponseMessages : handleRoleUpdateDone(r, m) /\ OneAtATime
  \/ handleDeleteUser /\ OneAtATime
  \/ \E r \in Wire : LateAnswer(r) /\ OneAtATime
  \/ \E r \in Wire, m \in ResponseMessages : handleDeleteUserDone(r, m) /\ OneAtATime

SequentialSpec == PageInit /\ [][SequentialNext]_vars

\* ------------------------------------------------------------------ claims
SessionCleared == user = Null /\ token = Null /\ cookie = NoCookie

\* C1: when initialize found a persisted token and GET /auth/me failed, then
\* once initialization has settled the user is null, the in-memory token is
\* null and the token cookie is removed.
C1_VerifyFailureClearsSession ==
  (initPc = "done" /\ lastOp = "init" /\ ~Falsy(storedToken) /\ meResponse = "fail")
    => SessionCleared

C1_Witness ==
  /\ initPc = "done" /\ lastOp = "init"
  /\ storedToken \in Tokens /\ meRequests = 1 /\ meResponse = "fail"
  /\ ~isLoading

\* C2: whenever a logout follows a login, successful or failed, then after the
\* logout the token cookie is absent and the in-memory token and the user are
\* null.
C2_LogoutAfterLoginClears ==
  (lastOp = "logout" /\ prevOp \in {"loginOk", "loginFail"}) => SessionCleared

C2_Witness ==
  /\ lastOp = "logout" /\ prevOp = "loginOk"
  /\ loginReply.kind = "ok" /\ cookie = NoCookie

\* C3: while isLoading is true AdminLayout renders only its loading indicator:
\* no children, no sidebar entry can be clicked and no logout button pressed.
C3_NoProtectedContentWhileLoading ==
  isLoading =>
    /\ AdminLayoutView(isLoading, user) = "spinner"
    /\ Screen \in {"spinner", "loginPage"}
    /\ ~ENABLED Logout
    /\ \A p \in ProtectedPaths : ~ENABLED NavClick(p)

C3_Witness ==
  isLoading /\ user # Null /\ pathname \in ProtectedPaths /\ Screen = "spinner"

\* C4: once loading is resolved, a protected view is in exactly one of two
\* situations: a user is present and the content is rendered (no redirect to
\* /login in flight), or no user is present, only the redirect placeholder is
\* shown and a redirect to /login is in flight.
C4_UserXorRedirect ==
  (~isLoading /\ pathname \in ProtectedPaths) =>
    LET shown      == user # Null /\ Screen = "content" /\ pending # LoginPath
        redirected == user = Null /\ Screen = "redirecting" /\ pending = LoginPath
    IN (shown \/ redirected) /\ ~(shown /\ redirected)

C4_Witness ==
  /\ ~isLoading /\ pathname \in ProtectedPaths
  /\ user = Null /\ Screen = "redirecting" /\ guardPush = LoginPath
  /\ lastOp = "logout"

\* C5: the guard redirects only when isLoading is false, to /dashboard only
\* when a user is present on /login, to /login only when no user is present
\* off /login; with a user present off /login or no user on /login it issues
\* no redirect.
C5_GuardRule ==
  /\ guardPush \in {NoNav, DashboardPath, LoginPath}
  /\ guardPush # NoNav => ~isLoading
  /\ guardPush = DashboardPath => (user # Null /\ pathname = LoginPath)
  /\ guardPush = LoginPath => (user = Null /\ pathname # LoginPath)
  /\ (~isLoading /\ user # Null /\ pathname # LoginPath) => guardPush = NoNav
  /\ (~isLoading /\ user = Null /\ pathname = LoginPath) => guardPush = NoNav
  /\ (~isLoading /\ user # Null /\ pathname = LoginPath) => pending = DashboardPath
  /\ (~isLoading /\ user = Null /\ pathname # LoginPath) => pending = LoginPath

C5_Witness ==
  guardPush = DashboardPath /\ user # Null /\ pathname = LoginPath /\ ~isLoading

\* C6: after a logout (pressed on a protected page) the location eventually
\* becomes /login, and it never leaves /login while no user is present.
C6_LogoutLeadsToLogin ==
  /\ (lastOp = "logout" /\ user = Null) ~> (pathname = LoginPath)
  /\ [][(pathname = LoginPath /\ user = Null /\ user' = Null) => pathname' = LoginPath]_vars

C6_Witness ==
  lastOp = "logout" /\ user = Null /\ pathname = LoginPath /\ pending = NoNav

\* C7: initialize terminates: isLoading eventually becomes false and loadUser
\* sets it to false exactly once; without a persisted token no GET /auth/me is
\* sent, with one exactly one is sent and on success the user is the one the
\* backend returned.
C7_InitializeSettlesOnce ==
  /\ <>(initPc = "done" /\ ~isLoading)
  /\ [](/\ settled <= 1
        /\ initPc = "done" <=> settled = 1
        /\ settled = 0 => isLoading
        /\ (initPc # "mount" /\ Falsy(storedToken)) => (meRequests = 0 /\ meResponse = "none")
        /\ ~Falsy(storedToken) => meRequests = 1
        /\ (initPc = "done" /\ lastOp = "init" /\ meResponse \in Users)
             => (user = meResponse /\ token = storedToken /\ cookie.value = storedToken))

C7_Witness ==
  /\ initPc = "done" /\ settled = 1 /\ ~isLoading /\ lastOp = "init"
  /\ meRequests = 1 /\ meResponse \in Users /\ user = meResponse

\* C8: a successful login stores the returned token in the cookie with the
\* 7-day expiry, sets the in-memory token and user to the returned values and
\* starts a navigation to /dashboard.
C8_LoginSuccess ==
  [][(loginPc = "awaiting" /\ loginPc' = "idle" /\ lastOp' = "loginOk") =>
       /\ loginReply'.kind = "ok"
       /\ cookie' = [value |-> loginReply'.token, expires |-> 7, secure |-> production]
       /\ token' = loginReply'.token
       /\ user' = loginReply'.user
       /\ loginResult' = "resolved"
       /\ pending' = DashboardPath]_vars

C8_Witness ==
  /\ lastOp = "loginOk" /\ loginReply.kind = "ok"
  /\ user = loginReply.user /\ token = loginReply.token /\ cookie.value = token
  /\ cookie.expires = 7
  /\ pathname = LoginPath /\ pending = DashboardPath

LoginFails == loginPc = "awaiting" /\ loginPc' = "idle" /\ lastOp' = "loginFail"

\* What a failed login leaves alone: the session, and with no session before
\* it the location (no redirect is issued).
FailedLoginKeepsSession ==
  /\ UNCHANGED <<user, token, cookie>>
  /\ SessionCleared => (SessionCleared' /\ guardPush' = NoNav /\ pending' = pending
                        /\ pathname' = LoginPath)
  /\ loginResult' = error'

\* C9 as stated: on a failed login a null session remains null, the error is
\* the backend-provided message or else "Login failed", it is re-thrown and no
\* redirect away from /login happens.
C9_Original ==
  [][LoginFails =>
       /\ FailedLoginKeepsSession
       /\ error' = IF ~Falsy(loginReply'.respMsg) THEN loginReply'.respMsg
                   ELSE "Login failed"]_vars

\* C9 (amended): on a failed login a null session remains null, the error is
\* the backend-provided message, or else the caught error's own message, or
\* else "Login failed"; it is re-thrown with that message and no redirect away
\* from /login happens.
C9_LoginFailure ==
  [][LoginFails =>
       /\ FailedLoginKeepsSession
       /\ error' = IF ~Falsy(loginReply'.respMsg) THEN loginReply'.respMsg
                   ELSE IF ~Falsy(loginReply'.message) THEN loginReply'.message
                   ELSE "Login failed"]_vars

C9_Witness ==
  /\ lastOp = "loginFail" /\ loginReply.kind = "err"
  /\ Falsy(loginReply.respMsg) /\ loginReply.message = "Network Error"
  /\ error = "Network Error" /\ loginResult = "Network Error"
  /\ SessionCleared /\ pathname = LoginPath /\ pending = NoNav

\* C10: isLoading is true while a login request is in flight and false once
\* the login has completed, whether it succeeded or failed; after
\* initialization it is true only while a login is in flight.
C10_LoginLeavesNotLoading ==
  /\ loginPc = "awaiting" => isLoading
  /\ (loginPc = "idle" /\ lastOp \in {"loginOk", "loginFail"}) => ~isLoading
  /\ (initPc = "done" /\ isLoading) => loginPc = "awaiting"

C10_Witness ==
  lastOp = "loginFail" /\ loginPc = "idle" /\ ~isLoading /\ loginResult = error

\* A step in which logout() is called: the sidebar's Logout button, or the
\* catch block of loadUser.
LogoutCalled ==
  \/ lastOp' = "logout" /\ lastOp # "logout"
  \/ initPc = "awaiting" /\ initPc' = "done" /\ meResponse' = "fail"

\* A step that puts no request on the wire.
NoRequestSent == net' \sqsubseteq net

\* C11: a call of logout, with a user logged in or during initialization,
\* leaves the token cookie removed and the in-memory user and token null,
\* sends no request to the backend and raises no error.
C11_LogoutClearsLocally ==
  [][LogoutCalled =>
       /\ SessionCleared'
       /\ NoRequestSent
       /\ error' = error
       /\ loginResult' = loginResult]_vars

C11_Witness ==
  /\ lastOp = "logout" /\ prevOp = "init" /\ meResponse \in Users
  /\ SessionCleared /\ net = EmptyBag /\ error = Null

\* The requests a step puts on the wire.
SentNow == {r \in Wire' : r.status = "sent" /\ CopiesIn(r, net') > CopiesIn(r, net)}

\* The Authorization header the api client gives a request sent while the
\* token cookie holds v.
HeaderFor(v) == IF ~Falsy(v) THEN Bearer(v) ELSE NoAuth

\* C12: every request on the wire carries Bearer <the token cookie as it was
\* when the request was sent> when there was such a cookie, and no
\* Authorization header when there was none; a request sent once logout has
\* run carries no Authorization header.
C12_BearerFromCookieAtSend ==
  /\ [](\A r \in Wire : r.Authorization = HeaderFor(r.cookieAtSend))
  /\ [][\A r \in SentNow : lastOp = "logout" => r.Authorization = NoAuth]_vars

C12_Witness ==
  /\ lastOp = "logout"
  /\ \E r \in Wire : r.by = "fetchList" /\ r.status = "sent" /\ r.Authorization = NoAuth
  /\ \E r \in Wire : r.by # "fetchList" /\ r.Authorization = Bearer(TokenPool[1])

\* Nothing is in flight: no request, no navigation, loadUser has settled.
Quiet == net = EmptyBag /\ pending = NoNav /\ initPc = "done"

\* C13: once the backend has rejected a page's list fetch with a 401 (an
\* expired or invalid token) and nothing is in flight any more, the session is
\* cleared and the user is at the login page.
C13_RejectedTokenClearsSession ==
  (Mounted /\ pageError = FetchFailed(page) /\ Quiet)
    => (SessionCleared /\ pathname = LoginPath)

\* DashboardPage's Quick Actions: two links rendered for every user, the first
\* to the project creation page.
QuickActions == {"Add New Project", "Review Testimonials"}

\* The controls on screen that create, update or delete a resource: the
\* dashboard's Add New Project link, and on a list page the controls rendered
\* for the user's role.
MutationControls ==
  (IF Screen = "content" /\ pathname = DashboardPath
   THEN QuickActions \cap {"Add New Project"} ELSE {})
  \cup
  (IF Visible
   THEN {c \in {"create", "edit", "toggle", "delete"} :
           \/ c = "create" /\ page \in {"TestimonialsPage", "ProjectsPage"}
                           /\ Role(user) \in EditRoles(page)
           \/ c = "edit"   /\ Role(user) \in EditRoles(page)
                           /\ \E i \in Items : list[i] # "absent"
           \/ c = "toggle" /\ Role(user) \in ToggleRoles(page)
                           /\ \E i \in Items : list[i] # "absent"
           \/ c = "delete" /\ Role(user) \in DeleteRoles(page)
                           /\ \E i \in Items : list[i] # "absent"}
   ELSE {})

\* C14: for a VIEWER the Users, Projects, Clients and Career Submissions
\* entries are absent from the sidebar, the Users page shows Access Denied, and
\* no create, edit, delete or toggle control is on screen on any page, the
\* dashboard included.
C14_ViewerHasNoMutationControl ==
  Role(user) = "VIEWER" =>
    /\ filteredNavItems(user) \cap {"/dashboard/users", "/dashboard/projects",
                                    "/dashboard/clients", "/dashboard/careers"} = {}
    /\ (page = "UsersPage" /\ Mounted) => PageView = "denied"
    /\ MutationControls = {}

\* C15: on the Contact and Career submission pages a delete called by a user
\* who is not ADMIN sends no request (no DELETE, no re-fetch), leaves the
\* displayed list and the session as they are, and sets the page's error to
\* the authorization message.
C15_UnauthorizedDeleteIsRefused ==
  [][(/\ page \in SubmissionPages
      /\ Role(user) # "ADMIN"
      /\ \E i \in Items : deleteItem(i))
       => /\ net' = net
          /\ list' = list
          /\ db' = db
          /\ pageError' = DeleteDenied(page)
          /\ UNCHANGED sessionVars]_vars

C15_Witness ==
  /\ page \in SubmissionPages
  /\ Role(user) = "EDITOR"
  /\ Visible
  /\ pageError = "You are not authorized to delete submissions."
  /\ \E i \in Items : list[i] # "absent"

\* ------------------------------------------------- ProjectsPage: slug field
\* A title is a sequence of characters.  Titles up to MaxTitleLen are built
\* from TitleChars: a lowercase and an uppercase letter, a digit, and three
\* characters outside [A-Za-z0-9], the hyphen among them.
MaxTitleLen == 3
TitleChars == {"a", "B", "1", "-", " ", "!"}

UpperCase == <<"A", "B", "C", "D", "E", "F", "G", "H", "I", "J", "K", "L", "M",
               "N", "O", "P", "Q", "R", "S", "T", "U", "V", "W", "X", "Y", "Z">>
LowerCase == <<"a", "b", "c", "d", "e", "f", "g", "h", "i", "j", "k", "l", "m",
               "n", "o", "p", "q", "r", "s", "t", "u", "v", "w", "x", "y", "z">>
Digits == {"0", "1", "2", "3", "4", "5", "6", "7", "8", "9"}

\* [a-z0-9]
SlugAlnum == {LowerCase[k] : k \in DOMAIN LowerCase} \cup Digits

\* "My New Project!!"
ExampleTitle == <<"M", "y", " ", "N", "e", "w", " ", "P", "r", "o", "j", "e", "c", "t", "!", "!">>
\* "my-new-project"
ExampleSlug == <<"m", "y", "-", "n", "e", "w", "-", "p", "r", "o", "j", "e", "c", "t">>

BoundedTitles == UNION {[1..n -> TitleChars] : n \in 0..MaxTitleLen}
Titles == BoundedTitles \cup {ExampleTitle}

\* .toLowerCase()
toLowerCase(s) ==
  [k \in DOMAIN s |->
     IF \E j \in DOMAIN UpperCase : UpperCase[j] = s[k]
     THEN LowerCase[CHOOSE j \in DOMAIN UpperCase : UpperCase[j] = s[k]]
     ELSE s[k]]

\* s without its longest prefix of characters outside [a-z0-9]
RECURSIVE SkipRun(_)
SkipRun(s) ==
  IF s # <<>> /\ Head(s) \notin SlugAlnum THEN SkipRun(Tail(s)) ELSE s

\* .replace(/[^a-z0-9]+/g, '-'): every maximal run of characters outside
\* [a-z0-9] becomes one hyphen.
RECURSIVE ReplaceRuns(_)
ReplaceRuns(s) ==
  IF s = <<>> THEN <<>>
  ELSE IF Head(s) \in SlugAlnum THEN <<Head(s)>> \o ReplaceRuns(Tail(s))
  ELSE <<"-">> \o ReplaceRuns(SkipRun(s))

\* (mutant: /^-/, only the leading hyphen is removed)
StripEnds_LeadingOnly(s) ==
  IF s # <<>> /\ Head(s) = "-" THEN Tail(s) ELSE s

\* .replace(/(^-|-$)+/g, ''): a hyphen at the start and a hyphen at the end
\* are removed.
StripEnds(s) ==
  LET a == IF s # <<>> /\ Head(s) = "-" THEN Tail(s) ELSE s
  IN  IF a # <<>> /\ a[Len(a)] = "-" THEN SubSeq(a, 1, Len(a) - 1) ELSE a

\* The slug the effect derives from a title.
deriveSlug(t) == StripEnds(ReplaceRuns(toLowerCase(t)))

\* The project form is open on ProjectsPage for an ADMIN, its text fields empty.
SlugInit ==
  /\ production = FALSE
  /\ pathname = "/dashboard/projects"
  /\ error = Null
  /\ loginPc = "idle"
  /\ loginResult = "none"
  /\ prevOp = "none"
  /\ loginReply = NoReply
  /\ ReachedFromSidebar("admin1")
  /\ page = "ProjectsPage"
  /\ db = NoRows
  /\ list = NoRows
  /\ pageLoading = FALSE
  /\ pageError = Null
  /\ net = EmptyBag
  /\ showModal = TRUE
  /\ editing = Null
  /\ deleting = Null
  /\ viewing = Null
  /\ selectedRole = ""
  /\ actionLoading = FALSE
  /\ bypass = FALSE
  /\ title = <<>>
  /\ slug = <<>>
  /\ defaultValues = [title |-> <<>>, slug |-> <<>>]
  /\ formData = [title |-> <<>>, slug |-> <<>>]

\* The user changes the title field to t; the effect on [watchTitle, setValue]
\* then derives the slug, unless the title is empty.
changeTitle(t) ==
  /\ Visible
  /\ FormModalOpen
  /\ title' = t
  /\ slug' = IF t # <<>> THEN deriveSlug(t) ELSE slug
  /\ UNCHANGED <<defaultValues, formData>>
  /\ UNCHANGED sessionVars
  /\ UNCHANGED <<net, pageVars>>

SlugNext == \E t \in Titles : changeTitle(t)

SlugSpec == SlugInit /\ [][SlugNext]_vars

\* C16: the slug derived from a title depends on the title alone, holds only
\* lowercase letters, digits and hyphens, has no two hyphens in a row and no
\* hyphen at its start or end, and is its own derived slug; "My New Project!!"
\* gives "my-new-project".
C16_SlugDerivation ==
  title # <<>> =>
    /\ slug = deriveSlug(title)
    /\ \A k \in DOMAIN slug : slug[k] \in SlugAlnum \cup {"-"}
    /\ \A k \in DOMAIN slug : k + 1 \in DOMAIN slug => ~(slug[k] = "-" /\ slug[k + 1] = "-")
    /\ slug # <<>> => (slug[1] # "-" /\ slug[Len(slug)] # "-")
    /\ deriveSlug(slug) = slug
    /\ title = ExampleTitle => slug = ExampleSlug

C16_Witness == title = <<" ", "B", "!">> /\ slug = <<"b">>

\* C17: on TestimonialsPage a toggle by ADMIN or EDITOR of a testimonial
\* displayed as not approved sends exactly one PUT /testimonials/:id with
\* isApproved = true, and a toggle by a VIEWER sends nothing; when the PUT
\* has succeeded the backend holds the testimonial as approved and exactly one
\* GET /testimonials is sent; the backend's rows do not change while that
\* fetch is in flight, and its answer makes the displayed list the backend's
\* rows, the testimonial approved.
C17_ToggleApprovesAndRefetches ==
  [][page = "TestimonialsPage" =>
       /\ \A i \in Items :
            (toggleStatus(i) /\ list[i] = "off") =>
              IF Role(user) \in {"ADMIN", "EDITOR"}
              THEN \E r \in Wire' :
                     /\ r.method = "PUT" /\ r.url = "/testimonials"
                     /\ r.item = i /\ r.value = "on" /\ r.status = "sent"
                     /\ net' = net (+) SetToBag({r})
              ELSE net' = net
       /\ \A p \in Wire, m \in ResponseMessages :
            (toggleStatusDone(p, m) /\ p.status = "ok" /\ p.value = "on") =>
              /\ db[p.item] = "on"
              /\ \E g \in Wire' :
                   /\ g.method = "GET" /\ g.url = "/testimonials" /\ g.status = "sent"
                   /\ net' = Settled(net, p) (+) SetToBag({g})
       /\ (\E g \in Wire : g.by = "fetchList") => db' = db
       /\ \A g \in Wire, m \in ResponseMessages :
            (fetchListDone(g, m) /\ g.status = "ok") => list' = db]_vars

C17_Witness ==
  /\ page = "TestimonialsPage"
  /\ Role(user) = "EDITOR"
  /\ \E p \in Wire :
       /\ p.by = "toggleStatus" /\ p.status = "ok" /\ p.value = "on"
       /\ list[p.item] = "off"
       /\ db[p.item] = "on"

\* The requests that change a resource.
Mutations == {"PUT", "POST", "DELETE"}

\* The requests whose answer a step hands to the function awaiting it.
ConsumedNow == {r \in Wire : r.status # "sent" /\ CopiesIn(r, net') < CopiesIn(r, net)}

\* C18: a list fetch is sent only by the page's fetch effect (the user
\* changed) or in the step that receives the successful answer of a mutation,
\* one fetch for it; the step that receives the failed answer of a mutation
\* sends nothing.
C18_RefetchAfterSuccessOnly ==
  [][/\ \A g \in SentNow :
          g.by = "fetchList" =>
            \/ user' # user
            \/ \E p \in ConsumedNow :
                 /\ p.method \in Mutations
                 /\ p.status = "ok"
                 /\ g.url = p.url
                 /\ net' = Settled(net, p) (+) SetToBag({g})
     /\ \A p \in ConsumedNow :
          (p.method \in Mutations /\ p.status \in FailStatuses) => net' = Settled(net, p)]_vars

C18_Witness ==
  /\ Visible
  /\ pageError = ToggleFailed(page)
  /\ page \in {"TestimonialsPage"} \cup SubmissionPages
  /\ net = EmptyBag
  /\ ~pageLoading

\* Ready: the list is on screen, not loading, and no modal is open.
Ready == ListClickable

SessionOperation ==
  \/ LoadUserStart
  \/ \E u \in Users : LoadUserResolve(u)
  \/ LoadUserReject
  \/ Logout

\* C20: user, the in-memory token and the token cookie change only in a step
\* of initialize or logout (login is not part of a dashboard page): no step
\* of a page handler, of the backend answering, or of an answer arriving
\* failed or after the page was left changes them.
C20_OnlySessionStoreChangesSession ==
  [][(user' # user \/ token' # token \/ cookie' # cookie) => SessionOperation]_vars

C20_Witness ==
  /\ Mounted
  /\ DeleteRoles(page) # {}
  /\ pageError \in {FetchFailed(page), DeleteFailed(page)}
  /\ user # Null /\ token # Null /\ cookie # NoCookie
  /\ lastOp = "init"

\* The pages that render a placeholder for an empty list ("No testimonials
\* yet", "No submissions yet", "No projects found", "No brochure requests
\* found."); CareerSubmissionsPage and
\* UsersPage render the bare table.
HasEmptyState(pg) ==
  pg \in {"TestimonialsPage", "ContactSubmissionsPage", "ProjectsPage", "BrochureRequestsPage"}

\* What the page component displays: the spinner, an error message (the
\* page's error or Access Denied), the rows of a populated list, the
\* placeholder of an empty one.
Shown ==
  CASE PageView = "spinner" -> {"spinner"}
    [] PageView = "error"   -> {"error"}
    [] PageView = "denied"  -> {"error"}
    [] OTHER ->
         (IF ~Falsy(pageError) THEN {"error"} ELSE {})
         \cup (IF \E i \in Items : list[i] # "absent" THEN {"list"} ELSE {})
         \cup (IF (\A i \in Items : list[i] = "absent") /\ HasEmptyState(page)
               THEN {"empty"} ELSE {})

\* C21: a list page on screen always displays a spinner, a populated list, an
\* empty-state placeholder or an error message; while it holds the message of
\* a failed list fetch and is not loading, it displays an error message.
\* (UsersPage is left out: its list holds the own account, which is not one
\* of Items, so it is never empty once fetched.)
C21_PageShowsSomething ==
  (Mounted /\ Screen = "content" /\ page # "UsersPage") =>
    /\ Shown # {}
    /\ (pageError = FetchFailed(page) /\ ~pageLoading) => "error" \in Shown

\* The page's error message is on screen: as the whole page, or as the banner
\* above the list.
ErrorDisplayed ==
  /\ Mounted
  /\ Screen = "content"
  /\ PageView \in {"error", "content"}
  /\ ~Falsy(pageError)

\* C22: on the Testimonials, Contacts and Careers pages the message 'You are
\* not authorized to view this page.' is on screen only for a user whose role
\* the page does not accept.
C22_DenialOnlyForUnauthorized ==
  (/\ page \in {"TestimonialsPage"} \cup SubmissionPages
   /\ ErrorDisplayed
   /\ pageError = NotAuthorizedToView)
    => Role(user) \notin ViewRoles(page)

\* ------------------------------------------------ C23: settled and in step
\* The page with a backend that rejects nothing: every request is answered
\* with a success, GET /auth/me included.
ReliableNext ==
  \/ LoadUserStart
  \/ \E u \in Users : LoadUserResolve(u)
  \/ Logout
  \/ NavCommit
  \/ \E r \in Wire : BackendAnswer(r, "ok")
  \/ \E r \in Wire, m \in ResponseMessages : fetchListDone(r, m)
  \/ \E i \in Items : toggleStatus(i)
  \/ \E r \in Wire, m \in ResponseMessages : toggleStatusDone(r, m)
  \/ \E i \in Items : openViewModal(i)
  \/ openCreateModal
  \/ \E i \in Items : openEditModal(i)
  \/ closeModal
  \/ \E flag \in {"off", "on"}, hasImages \in BOOLEAN : onSubmit(flag, hasImages)
  \/ \E r \in Wire, m \in ResponseMessages : onSubmitDone(r, m)
  \/ \E i \in Items : confirmDelete(i)
  \/ \E i \in Items : deleteItem(i)
  \/ \E r \in Wire, m \in ResponseMessages : deleteItemDone(r, m)
  \/ \E i \in Items : editRole(i)
  \/ \E v \in {"off", "on"} : selectRole(v)
  \/ cancelEdit
  \/ handleRoleUpdate
  \/ \E r \in Wire, m \in ResponseMessages : handleRoleUpdateDone(r, m)
  \/ handleDeleteUser
  \/ \E r \in Wire : LateAnswer(r)
  \/ \E r \in Wire, m \in ResponseMessages : handleDeleteUserDone(r, m)

ReliableSpec == PageInit /\ [][ReliableNext]_vars

\* Nothing is in flight and the page of a permitted user shows its list.
AllSettled ==
  /\ Mounted
  /\ Role(user) \in ViewRoles(page)
  /\ initPc = "done"
  /\ net = EmptyBag
  /\ ~pageLoading

\* C23: on a page whose requests were all answered with a success, once
\* nothing is in flight any more the displayed list equals the backend's
\* list, whatever the order in which mutations and list fetches were answered.
C23_SettledListEqualsBackend == AllSettled => list = db

\* ------------------------------------------------ C24: what a toggle sends
\* C24: a toggle by ADMIN or EDITOR of a row the backend holds sends the
\* negation of the flag the backend stores for that row when the control is
\* clicked (so that a second toggle, clicked before the first one's re-fetch
\* has updated the list, sets the backend flag back to its original value).
C24_ToggleNegatesBackendFlag ==
  [][\A i \in Items :
       (toggleStatus(i) /\ Role(user) \in {"ADMIN", "EDITOR"} /\ db[i] # "absent") =>
         \A r \in SentNow : r.value = Negated(db[i])]_vars

\* ------------------------------------------- C25: token and cookie in step
\* C25: whenever isLoading is false, the in-memory token and the token cookie
\* agree (both absent, or the same value), and a non-null user comes with a
\* token; in every state the store reaches by initialize, login and logout.
C25_TokenMatchesCookie ==
  ~isLoading =>
    /\ IF token = Null THEN cookie = NoCookie ELSE cookie.value = token
    /\ user # Null => token # Null

C25_Witness ==
  /\ lastOp = "loginOk" /\ prevOp = "logout"
  /\ ~isLoading
  /\ user # Null
  /\ token # Null /\ cookie.value = token

\* ------------------------------------------------- ProjectsPage: the form
\* projectSchema.title: z.string().min(3, "Title is required")
TitleValid(t) == Len(t) >= 3

\* projectSchema.slug: z.string().min(3, ...).regex(/^[a-z0-9-]+$/, ...)
SlugValid(s) ==
  /\ Len(s) >= 3
  /\ s # <<>>
  /\ \A k \in DOMAIN s : s[k] \in SlugAlnum \cup {"-"}

\* What is followed of a project, in the form and in a row: title and slug.
FormValues(t, s) == [title |-> t, slug |-> s]

\* The title and slug a displayed project can have: "a 1" with the slug
\* the form derives from it, and "a 1" with another valid slug.
StoredProjects ==
  {FormValues(<<"a", " ", "1">>, <<"a", "-", "1">>),
   FormValues(<<"a", " ", "1">>, <<"1", "-", "a">>)}

\* The titles typed into the form: none, one that is too short, titles of
\* three characters whose derived slug is empty ("!!!"), too short ("aB!") or
\* valid ("aB1"), and the title of the displayed projects.
FormTitles ==
  {<<>>, <<"a">>, <<"!", "!", "!">>, <<"a", "B", "!">>, <<"a", "B", "1">>, <<"a", " ", "1">>}

\* useEffect(..., [watchTitle, setValue]) after a commit that leaves the
\* title t and the slug s: it runs when watchTitle has changed, and sets the
\* slug when the title is not empty.
slugEffect(t, s) == IF t # title /\ t # <<>> THEN deriveSlug(t) ELSE s

\* react-hook-form's reset(values): the fields take the values, which also
\* become the values a later reset() without argument goes back to; then
\* the slug effect.
reset(values) ==
  /\ title' = values.title
  /\ slug' = slugEffect(values.title, values.slug)
  /\ defaultValues' = values
  /\ UNCHANGED formData

\* ProjectsPage shows its list to an ADMIN: the list has been fetched, no
\* modal is open, the form is as useForm created it.
FormInit ==
  /\ production = FALSE
  /\ pathname = "/dashboard/projects"
  /\ error = Null
  /\ loginPc = "idle"
  /\ loginResult = "none"
  /\ prevOp = "none"
  /\ loginReply = NoReply
  /\ ReachedFromSidebar("admin1")
  /\ page = "ProjectsPage"
  /\ db \in Rows
  /\ list = db
  /\ pageLoading = FALSE
  /\ pageError = Null
  /\ net = EmptyBag
  /\ showModal = FALSE
  /\ editing = Null
  /\ deleting = Null
  /\ viewing = Null
  /\ selectedRole = ""
  /\ actionLoading = FALSE
  /\ bypass = FALSE
  /\ title = <<>>
  /\ slug = <<>>
  /\ defaultValues = FormValues(<<>>, <<>>)
  /\ formData = FormValues(<<>>, <<>>)

\* openCreateModal with the form: setEditingProject(null); reset({ title: '',
\* ..., slug: '', ... }); setShowModal(true).
FormOpenCreate ==
  /\ page = "ProjectsPage"
  /\ ListClickable
  /\ Role(user) \in EditRoles(page)
  /\ editing' = Null
  /\ reset(FormValues(<<>>, <<>>))
  /\ showModal' = TRUE
  /\ UNCHANGED <<page, db, list, pageLoading, pageError, deleting, viewing, selectedRole,
                 actionLoading, bypass, net>>
  /\ UNCHANGED sessionVars

\* openEditModal(project) with the form, project the displayed row i with
\* the title and slug p: setEditingProject(project); reset({ title:
\* project.title, ..., slug: project.slug, ... }); setShowModal(true).
FormOpenEdit(i, p) ==
  /\ page = "ProjectsPage"
  /\ ListClickable
  /\ Role(user) \in EditRoles(page)
  /\ list[i] # "absent"
  /\ editing' = i
  /\ reset(p)
  /\ showModal' = TRUE
  /\ UNCHANGED <<page, db, list, pageLoading, pageError, deleting, viewing, selectedRole,
                 actionLoading, bypass, net>>
  /\ UNCHANGED sessionVars

\* closeModal() with the form: the modal state is cleared and reset() takes
\* the fields back to the values of the last reset(values).
FormClose ==
  /\ page = "ProjectsPage"
  /\ Visible
  /\ FormModalOpen
  /\ ModalClosed
  /\ reset(defaultValues)
  /\ UNCHANGED <<page, db, list, pageLoading, selectedRole, actionLoading, bypass, net>>
  /\ UNCHANGED sessionVars

\* handleSubmit(onSubmit): the resolver validates the fields; onSubmit(data) up
\* to the await then appends title and slug to the form data and sends a PUT
\* of the edited project or a POST of a new one, which needs an image; flag
\* is the form's isPublished.
FormSubmit(flag, hasImages) ==
  /\ page = "ProjectsPage"
  /\ Visible
  /\ FormModalOpen
  /\ ~isSubmitting
  /\ TitleValid(title)
  /\ SlugValid(slug)
  /\ formData' = FormValues(title, slug)
  /\ IF editing = Null /\ ~hasImages
     THEN /\ pageError' = ImageRequired
          /\ UNCHANGED net
     ELSE /\ CanSend
          /\ pageError' = Null
          /\ net' = Sent(net, IF editing # Null
                              THEN Config("onSubmit", "PUT", Url(page), editing, flag)
                              ELSE Config("onSubmit", "POST", Url(page), NoItem, flag))
  /\ UNCHANGED <<page, db, list, pageLoading, showModal, editing, deleting, viewing,
                 selectedRole, actionLoading, bypass>>
  /\ UNCHANGED sessionVars
  /\ UNCHANGED <<title, slug, defaultValues>>

\* onSubmit after the await, with the form: fetchProjects(); closeModal(), or
\* setError in the catch block.
FormSubmitDone(r, m) ==
  /\ Answered(r, "onSubmit")
  /\ IF r.status = "ok"
     THEN /\ fetchList(Settled(net, r))
          /\ ModalClosed
          /\ reset(defaultValues)
     ELSE /\ pageError' = MessageOr(m, AxiosMessage)
          /\ net' = Settled(net, r)
          /\ UNCHANGED <<pageLoading, showModal, editing, deleting, viewing>>
          /\ UNCHANGED formVars
  /\ UNCHANGED <<page, db, list, selectedRole, actionLoading, bypass>>
  /\ UNCHANGED sessionVars

FormNext ==
  \/ FormOpenCreate
  \/ \E i \in Items, p \in StoredProjects : FormOpenEdit(i, p)
  \/ \E t \in FormTitles : changeTitle(t)
  \/ FormClose
  \/ \E flag \in {"off", "on"}, hasImages \in BOOLEAN : FormSubmit(flag, hasImages)
  \/ \E r \in Wire, status \in {"ok"} \cup FailStatuses : BackendAnswer(r, status)
  \/ \E r \in Wire, m \in ResponseMessages : FormSubmitDone(r, m)
  \/ \E r \in Wire, m \in ResponseMessages : fetchListDone(r, m)

FormSpec == FormInit /\ [][FormNext]_vars

\* C26: while the project form is open, a title that passes the title
\* validation comes with a slug that passes the slug validation, and the slug
\* field holds the slug derived from the current title.
C26_SlugFollowsTitle ==
  (page = "ProjectsPage" /\ Visible /\ FormModalOpen) =>
    /\ TitleValid(title) => SlugValid(deriveSlug(title))
    /\ slug = deriveSlug(title)

\* C27: a save from the edit form whose title is still the project's title
\* puts the project's slug, as it was stored when the form was opened, into
\* the submitted form data, whatever that slug is.
C27_EditKeepsStoredSlug ==
  [][\A flag \in {"off", "on"}, hasImages \in BOOLEAN :
       (FormSubmit(flag, hasImages) /\ editing # Null /\ title = defaultValues.title) =>
         formData'.slug = defaultValues.slug]_vars

\* ------------------------------------------- C28: user-management requests
\* C28: a user-management request (GET /auth/users, PUT of a role, DELETE of
\* a user) is only sent while the current user is an ADMIN.
C28_UserManagementByAdminOnly ==
  [][\A r \in SentNow : r.url = Url("UsersPage") => Role(user') = "ADMIN"]_vars

\* ------------------------------------------------- C29: sidebar and pages
\* The roles the page component of a section accepts: DashboardPage
\* fetches its statistics for any user, ClientsPage fetches for ADMIN and
\* EDITOR, BrochureRequestsPage has no role test; the other pages as ViewRoles
\* states.
SectionRoles(href) ==
  CASE href = "/dashboard"                   -> {"ADMIN", "EDITOR", "VIEWER"}
    [] href = "/dashboard/clients"           -> {"ADMIN", "EDITOR"}
    [] href = "/dashboard/brochure-requests" -> {"ADMIN", "EDITOR", "VIEWER"}
    [] OTHER                                 -> ViewRoles(PageAt(href))

\* C29: for the user the sidebar is rendered for and every dashboard section,
\* the sidebar holds the section's entry exactly when the section's page
\* accepts the user's role.
C29_SidebarMatchesPages ==
  Screen = "content" =>
    \A href \in ProtectedPaths :
      href \in filteredNavItems(user) <=> Role(user) \in SectionRoles(href)

C29_Witness ==
  /\ Screen = "content"
  /\ Role(user) = "VIEWER"
  /\ filteredNavItems(user) = {"/dashboard", "/dashboard/testimonials", "/dashboard/contacts",
                               "/dashboard/brochure-requests"}

\* ------------------------------------------- C30: no request without a user
\* A request of a page component, as opposed to the session store's own
\* GET /auth/me and POST /auth/login.
ResourceRequests == {r \in Wire : r.by \notin {"loadUser", "login"}}

\* C30: while initialization has not settled and user is still null, no page
\* has sent a resource request: the list fetch of a page's mount waits for
\* an authorized user.
C30_NoFetchBeforeUser ==
  (initPc # "done" /\ user = Null) => ResourceRequests = {}

====
